---- MODULE Spec2Model ----
(***************************************************************************)
(* Combat engine of the Pokemon combat simulator (src/dashboard.py):       *)
(* get_type_effectiveness, effectiveness_label, calculate_damage and       *)
(* simulate_battle.                                                        *)
(*                                                                         *)
(* Numbers.  The effectiveness multiplier is a float built from 1.0 by at  *)
(* most two factors out of 2.0, 0.5 and 0.0; it is carried here in         *)
(* quarters (One = 4 stands for 1.0), which is exact for 1-2 defending     *)
(* types.  random.random() is carried in hundredths (a roll r stands for   *)
(* the draw r/100).  The damage of a landing hit is the float expression   *)
(* of line 172 computed exactly, as one integer division.                  *)
(***************************************************************************)
EXTENDS Integers, Sequences, FiniteSets

VARIABLES p1, p2, p1_move, p2_move, fetch_type,
          p1_hp, p2_hp, rnd, order, turn,
          battle_log, hp_history, winner, calc, pc

vars == <<p1, p2, p1_move, p2_move, fetch_type,
          p1_hp, p2_hp, rnd, order, turn,
          battle_log, hp_history, winner, calc, pc>>

(* ------------------------------ bounds --------------------------------- *)

\* simulate_battle plays "for rnd in range(1, 101)"; the model plays the same
\* loop over range(1, MaxRounds + 1), the limit scaled down.
MaxRounds == 3

\* largest hp stat of a profile
MaxHp == 3

(* ----------------------------- constants ------------------------------- *)

LEVEL == 50

\* the multiplier 1.0, in quarters
One == 4

\* Python's None, and a present value
None == <<>>
Some(x) == <<x>>

\* max() that returns its second argument: HP is not floored at 0
Max_NoFloor(a, b) == b

Max(a, b) == IF a >= b THEN a ELSE b

(* ------------------------- string formatting --------------------------- *)

\* str.title() on the creature names of the model
Title(name) ==
    CASE name = "eevee" -> "Eevee"
      [] name = "onix"  -> "Onix"

\* name.replace("-", " ").title() on the move names of the model
FormatMove(name) ==
    CASE name = "tackle"     -> "Tackle"
      [] name = "rock-smash" -> "Rock Smash"

(* ------------------------ type effectiveness --------------------------- *)

\* the three membership tests in another order: no-damage is tested first
EffFactor_NoDamageFirst(dr, d_type, effectiveness) ==
    IF d_type \in dr.no_damage_to THEN effectiveness * 0
    ELSE IF d_type \in dr.double_damage_to THEN effectiveness * 2
    ELSE IF d_type \in dr.half_damage_to THEN effectiveness \div 2
    ELSE effectiveness

\* one pass of the loop body of get_type_effectiveness, for one d_type
EffFactor(dr, d_type, effectiveness) ==
    IF d_type \in dr.double_damage_to THEN effectiveness * 2
    ELSE IF d_type \in dr.half_damage_to THEN effectiveness \div 2
    ELSE IF d_type \in dr.no_damage_to THEN effectiveness * 0
    ELSE effectiveness

RECURSIVE EffLoop(_, _, _)
EffLoop(dr, defender_types, effectiveness) ==
    IF defender_types = <<>> THEN effectiveness
    ELSE EffLoop(dr, Tail(defender_types),
                 EffFactor(dr, Head(defender_types), effectiveness))

\* type_cache is the cached fetch_type: move type -> None or Some(relations)
get_type_effectiveness(type_cache, move_type, defender_types) ==
    LET type_data == type_cache[move_type]
    IN  IF type_data = None THEN One
        ELSE EffLoop(type_data[1], defender_types, One)

\* the labels are written without their trailing ellipsis character
effectiveness_label(eff) ==
    IF eff = 0 THEN "No effect!"
    ELSE IF eff >= 4 * One THEN "It's ultra effective!"
    ELSE IF eff >= 2 * One THEN "It's super effective!"
    ELSE IF 4 * eff <= One THEN "It's barely effective"
    ELSE IF eff < One THEN "It's not very effective"
    ELSE ""

(* --------------------------- damage formula ---------------------------- *)

\* "accuracy if accuracy else 100": None and 0 are both falsy
Accuracy(move_data) ==
    IF move_data.accuracy = None THEN 100
    ELSE IF move_data.accuracy[1] = 0 THEN 100
    ELSE move_data.accuracy[1]

AtkStat(attacker_stats, move_data) ==
    IF move_data.damage_class = "physical" THEN attacker_stats.attack
    ELSE attacker_stats.special_attack

DfnStat(defender_stats, move_data) ==
    IF move_data.damage_class = "physical" THEN defender_stats.defense
    ELSE defender_stats.special_defense

\* the accuracy check "random.random() < accuracy / 100"
Lands(roll, accuracy) == roll < accuracy

\* int(((2 * LEVEL / 5 + 2) * power * (atk / dfn) / 50 + 2) * effectiveness)
\* for dfn > 0, with effectiveness in quarters:
\*   ((2L/5 + 2) * P * A / (50 D) + 2) * E / 4
\*     = ((2L + 10) * P * A + 500 D) * E / (1000 D)
\* int() truncates, and the value is never negative.  The quotient is the
\* exact one; the float evaluation agrees with it on every input Init draws
\* (it can fall one short where rounding lands just under an integer, as for
\* power 15, atk 15, dfn 11).
HitDamage(power, atk, dfn, effectiveness) ==
    (((2 * LEVEL + 10) * power * atk + 500 * dfn) * effectiveness)
        \div (1000 * dfn)

\* missed without the effectiveness test: "missed = damage == 0"
Missed_AnyZeroDamage(damage, effectiveness) == damage = 0

\* "missed = damage == 0 and effectiveness != 0.0"
Missed(damage, effectiveness) == damage = 0 /\ effectiveness # 0

\* The frame of one invocation of calculate_damage: status "returned" with the
\* returned triple, or status "raised" when atk / dfn divides by zero.
calculate_damage(type_cache, attacker_stats, defender_stats, defender_types, move_data, roll) ==
    LET power == move_data.power
        accuracy == Accuracy(move_data)
        atk == AtkStat(attacker_stats, move_data)
        dfn == DfnStat(defender_stats, move_data)
        effectiveness ==
            get_type_effectiveness(type_cache, move_data.type, defender_types)
        lands == Lands(roll, accuracy)
        damage == IF lands THEN HitDamage(power, atk, dfn, effectiveness)
                  ELSE 0
    IN  IF lands /\ dfn = 0
        THEN [status |-> "raised", roll |-> roll, accuracy |-> accuracy,
              damage |-> 0, effectiveness |-> effectiveness,
              missed |-> FALSE]
        ELSE [status |-> "returned", roll |-> roll, accuracy |-> accuracy,
              damage |-> damage, effectiveness |-> effectiveness,
              missed |-> Missed(damage, effectiveness)]

(* ------------------------------ inputs --------------------------------- *)

TypeTags == {"rock", "ghost"}

\* the ordered sets of 1-2 type tags
TypeLists ==
    {<<t>> : t \in TypeTags}
        \cup {st \in TypeTags \X TypeTags : st[1] # st[2]}

\* every damage_relations record over the type tags (the three lists of the
\* catalog may overlap)
AllRelations ==
    [double_damage_to : SUBSET TypeTags,
     half_damage_to   : SUBSET TypeTags,
     no_damage_to     : SUBSET TypeTags]

Rolls == {0, 50, 99}

Stats(hp, attack, defense, special_attack, special_defense, speed) ==
    [hp |-> hp, attack |-> attack, defense |-> defense,
     special_attack |-> special_attack,
     special_defense |-> special_defense, speed |-> speed]

\* inputs of a single calculate_damage call
CalcAttackers ==
    {[name |-> "eevee", types |-> <<"rock">>,
      stats |-> Stats(1, a, 1, sa, 1, 1)] : a \in {0, 3}, sa \in {0, 3}}

CalcDefenders ==
    {[name |-> "onix", types |-> ts,
      stats |-> Stats(1, 1, d, 1, sd, 1)] :
        ts \in TypeLists, d \in {0, 2}, sd \in {0, 2}}

CalcMoves ==
    {[name |-> "tackle", power |-> pw, accuracy |-> acc, type |-> "normal",
      damage_class |-> dc] :
        pw \in {0, 40}, acc \in {None, Some(50), Some(100)},
        dc \in {"physical", "special", "status"}}

CalcTypeCaches ==
    {[t \in {"normal"} |-> td] :
        td \in {None} \cup {Some(dr) : dr \in AllRelations}}

\* inputs of a battle
HpStats == {0, 1, MaxHp}

BattleP1 ==
    {[name |-> "eevee", types |-> <<"rock">>,
      stats |-> Stats(hp, 1, d, 1, 5, 2)] : hp \in HpStats, d \in {0, 5}}

BattleP2 ==
    {[name |-> n, types |-> ts, stats |-> Stats(hp, 1, 5, 1, 5, sp)] :
        n \in {"eevee", "onix"}, ts \in {<<"rock">>, <<"rock", "ghost">>},
        hp \in HpStats, sp \in {1, 2, 3}}

BattleMoves ==
    {[name |-> "rock-smash", power |-> 10, accuracy |-> acc,
      type |-> "normal", damage_class |-> dc] :
        acc \in {None, Some(50)}, dc \in {"physical", "special"}}

BattleTypeCaches ==
    {[t \in {"normal"} |-> td] :
        td \in {None,
                Some([double_damage_to |-> {}, half_damage_to |-> TypeTags,
                      no_damage_to |-> {}]),
                Some([double_damage_to |-> {"rock"}, half_damage_to |-> {},
                      no_damage_to |-> {"ghost"}])}}

(* ---------------------------- simulate_battle -------------------------- *)

Side(key) == IF key = "p1" THEN p1 ELSE p2
MoveOf(key) == IF key = "p1" THEN p1_move ELSE p2_move
Hp(key) == IF key = "p1" THEN p1_hp ELSE p2_hp

P1First == <<[attacker |-> "p1", def_key |-> "p2"],
             [attacker |-> "p2", def_key |-> "p1"]>>
P2First == <<[attacker |-> "p2", def_key |-> "p1"],
             [attacker |-> "p1", def_key |-> "p2"]>>

\* the speed comparisons reversed: the slower side opens the round
DecideOrder_SlowerFirst(p1_speed, p2_speed, roll) ==
    IF p1_speed < p2_speed THEN P1First
    ELSE IF p2_speed < p1_speed THEN P2First
    ELSE IF roll < 50 THEN P1First
    ELSE P2First

\* turn order of a round; roll is the draw of the tie-break
DecideOrder(p1_speed, p2_speed, roll) ==
    IF p1_speed > p2_speed THEN P1First
    ELSE IF p2_speed > p1_speed THEN P2First
    ELSE IF roll < 50 THEN P1First
    ELSE P2First

\* "for rnd in range(1, 101)": is there a round after round r
HasNextRound(r) == r < MaxRounds

\* no break after a turn: the second attacker always acts
Fainted_NeverBreaks(def_hp_after) == FALSE

\* the break after a turn
Fainted(def_hp_after) == def_hp_after <= 0

\* "and" for "or": the loop goes on until both sides are at 0
BattleOver_BothFainted(hp1, hp2) == hp1 <= 0 /\ hp2 <= 0

\* the break after a round
BattleOver(hp1, hp2) == hp1 <= 0 \/ hp2 <= 0

\* the two names exchanged
DetermineWinner_Swapped(hp1, hp2) ==
    IF hp1 <= 0 /\ hp2 <= 0 THEN "It's a draw!"
    ELSE IF hp1 <= 0 THEN Title(p1.name)
    ELSE IF hp2 <= 0 THEN Title(p2.name)
    ELSE "Draw - 100-round limit reached!"

DetermineWinner(hp1, hp2) ==
    IF hp1 <= 0 /\ hp2 <= 0 THEN "It's a draw!"
    ELSE IF hp1 <= 0 THEN Title(p2.name)
    ELSE IF hp2 <= 0 THEN Title(p1.name)
    ELSE "Draw - 100-round limit reached!"

NoCall == [status |-> "none", roll |-> 0, accuracy |-> 100, damage |-> 0,
           effectiveness |-> One, missed |-> FALSE]

\* the state after lines 183-190 for given arguments
Setup(a, am, b, bm, tc) ==
    /\ p1 = a /\ p1_move = am /\ p2 = b /\ p2_move = bm /\ fetch_type = tc
    /\ p1_hp = a.stats.hp
    /\ p2_hp = b.stats.hp
    /\ battle_log = <<>>
    /\ hp_history = <<[round |-> 0, pokemon |-> a.name, hp |-> a.stats.hp],
                      [round |-> 0, pokemon |-> b.name, hp |-> b.stats.hp]>>
    /\ rnd = 0 /\ order = <<>> /\ turn = 0
    /\ winner = None
    /\ calc = NoCall

Init ==
    /\ \E a \in BattleP1, b \in BattleP2, am \in BattleMoves,
          bm \in BattleMoves, tc \in BattleTypeCaches :
            Setup(a, am, b, bm, tc)
    /\ pc = "loop"

\* top of the for loop: next round and its turn order
StartRound ==
    /\ pc = "loop"
    /\ HasNextRound(rnd)
    /\ rnd' = rnd + 1
    /\ \E roll \in Rolls :
          order' = DecideOrder(p1.stats.speed, p2.stats.speed, roll)
    /\ turn' = 1
    /\ pc' = "turns"
    /\ UNCHANGED <<p1, p2, p1_move, p2_move, fetch_type, p1_hp, p2_hp,
                   battle_log, hp_history, winner, calc>>

\* one pass of "for attacker, atk_move, defender, def_key in order"
Attack ==
    /\ pc = "turns"
    /\ \E roll \in Rolls :
        LET t == order[turn]
            attacker == Side(t.attacker)
            atk_move == MoveOf(t.attacker)
            defender == Side(t.def_key)
            r == calculate_damage(fetch_type, attacker.stats, defender.stats,
                                  defender.types, atk_move, roll)
            def_hp_after == Max(0, Hp(t.def_key) - r.damage)
            eff_msg == effectiveness_label(r.effectiveness)
        IN  /\ calc' = r
            /\ IF r.status = "raised"
               THEN /\ pc' = "error"
                    /\ UNCHANGED <<p1_hp, p2_hp, battle_log, turn>>
               ELSE /\ p1_hp' = IF t.def_key = "p1" THEN def_hp_after
                                ELSE p1_hp
                    /\ p2_hp' = IF t.def_key = "p1" THEN p2_hp
                                ELSE def_hp_after
                    /\ battle_log' = Append(battle_log,
                          [Round |-> rnd,
                           Attacker |-> Title(attacker.name),
                           Move |-> FormatMove(atk_move.name),
                           Damage |-> r.damage,
                           Effectiveness |-> r.effectiveness,
                           Note |-> IF r.missed THEN "Missed!" ELSE eff_msg,
                           DefenderHP |-> def_hp_after])
                    /\ turn' = turn + 1
                    /\ pc' = IF Fainted(def_hp_after) \/ turn = Len(order)
                             THEN "end_round" ELSE "turns"
    /\ UNCHANGED <<p1, p2, p1_move, p2_move, fetch_type, rnd, order,
                   hp_history, winner>>

\* after the turns of a round: the HP samples and the termination check
EndRound ==
    /\ pc = "end_round"
    /\ hp_history' = hp_history \o
          <<[round |-> rnd, pokemon |-> p1.name, hp |-> p1_hp],
            [round |-> rnd, pokemon |-> p2.name, hp |-> p2_hp]>>
    /\ pc' = IF BattleOver(p1_hp, p2_hp) THEN "resolve" ELSE "loop"
    /\ UNCHANGED <<p1, p2, p1_move, p2_move, fetch_type, p1_hp, p2_hp, rnd,
                   order, turn, battle_log, winner, calc>>

\* after the loop (break, or range exhausted): the winner
Resolve ==
    /\ \/ pc = "resolve"
       \/ pc = "loop" /\ ~HasNextRound(rnd)
    /\ winner' = Some(DetermineWinner(p1_hp, p2_hp))
    /\ pc' = "resolved"
    /\ UNCHANGED <<p1, p2, p1_move, p2_move, fetch_type, p1_hp, p2_hp, rnd,
                   order, turn, battle_log, hp_history, calc>>

Next == StartRound \/ Attack \/ EndRound \/ Resolve

Spec == Init /\ [][Next]_vars

(* ------------------- calculate_damage called on its own ---------------- *)

InitCalc ==
    /\ \E a \in CalcAttackers, b \in CalcDefenders, am \in CalcMoves,
          tc \in CalcTypeCaches :
            Setup(a, am, b, am, tc)
    /\ pc = "calc"

\* calculate_damage(p1["stats"], p2["stats"], p2["types"], p1_move)
CalculateDamage ==
    /\ pc = "calc"
    /\ \E roll \in Rolls :
          calc' = calculate_damage(fetch_type, p1.stats, p2.stats, p2.types,
                                   p1_move, roll)
    /\ pc' = IF calc'.status = "raised" THEN "error" ELSE "calc_done"
    /\ UNCHANGED <<p1, p2, p1_move, p2_move, fetch_type, p1_hp, p2_hp, rnd,
                   order, turn, battle_log, hp_history, winner>>

NextCalc == CalculateDamage

SpecCalc == InitCalc /\ [][NextCalc]_vars

(* ------------------------------ properties ----------------------------- *)

Last(seq) == seq[Len(seq)]

\* the events of round r, in log order
RoundEvents(r) == SelectSeq(battle_log, LAMBDA e : e.Round = r)

\* the side of the i-th HP sample: samples come in pairs, p1 then p2
SampleSide(i) == IF i % 2 = 1 THEN "p1" ELSE "p2"

\* C1: simulate_battle always terminates within the round limit: a battle
\* that has stopped is resolved, the round counter never exceeds the limit,
\* and no TurnEvent or HP sample carries a larger round number.
C1_TerminatesWithinLimit ==
    /\ rnd <= MaxRounds
    /\ \A i \in 1..Len(battle_log) : battle_log[i].Round <= MaxRounds
    /\ \A i \in 1..Len(hp_history) : hp_history[i].round <= MaxRounds
    /\ pc \in {"resolved", "error"} => pc = "resolved"

\* C2: a TurnEvent that leaves the defender at 0 HP is the last entry of the
\* battle log: no second turn in that round and no later round.
C2_KnockoutEndsLog ==
    \A i \in 1..Len(battle_log) :
        battle_log[i].DefenderHP = 0 => i = Len(battle_log)

\* a resolved battle whose last round was cut short by the first attacker's
\* hit on a defender that started above 0, before the last round of the loop
C2_Witness ==
    /\ pc = "resolved"
    /\ rnd < MaxRounds
    /\ Len(RoundEvents(rnd)) = 1
    /\ Last(battle_log).DefenderHP = 0
    /\ Last(battle_log).Damage > 0
    /\ Side(order[1].def_key).stats.hp > 0

\* C3: per side the HP trace is non-increasing in round order, never negative
\* and never above the starting hp stat; so is the current HP.
C3_HpTraceMonotone ==
    /\ \A i \in 1..Len(hp_history) :
          /\ hp_history[i].hp >= 0
          /\ hp_history[i].hp <= Side(SampleSide(i)).stats.hp
          /\ i + 2 <= Len(hp_history) =>
                /\ hp_history[i + 2].hp <= hp_history[i].hp
                /\ hp_history[i + 2].round = hp_history[i].round + 1
    /\ \A k \in {"p1", "p2"} :
          /\ Hp(k) >= 0
          /\ Hp(k) <= Side(k).stats.hp
    /\ p1_hp <= hp_history[Len(hp_history) - 1].hp
    /\ p2_hp <= hp_history[Len(hp_history)].hp

\* a trace in which p2 lost HP in two successive rounds and still stands
C3_Witness ==
    /\ Len(hp_history) >= 6
    /\ hp_history[4].hp < hp_history[2].hp
    /\ hp_history[6].hp < hp_history[4].hp
    /\ hp_history[6].hp > 0

C5_MissedOnlyOnAccuracyFailure ==
    (calc.status = "returned" /\ calc.missed) =>
        ~Lands(calc.roll, calc.accuracy)

\* C6: the damage and battle computations are total: no invocation of
\* calculate_damage raises and no battle ends in the error state.
C6_Total ==
    calc.status # "raised" /\ pc # "error"

\* the outcome the final HP of both sides stands for
OutcomeOf(hp1, hp2) ==
    CASE hp1 = 0 /\ hp2 = 0 -> "It's a draw!"
      [] hp1 = 0 /\ hp2 > 0 -> Title(p2.name)
      [] hp1 > 0 /\ hp2 = 0 -> Title(p1.name)
      [] hp1 > 0 /\ hp2 > 0 -> "Draw - 100-round limit reached!"

\* C7: the outcome is determined by the final HP of both sides, and the
\* round-limit message is returned only after exactly the full number of
\* rounds with both sides above 0.
C7_OutcomeFromFinalHp ==
    pc = "resolved" =>
        /\ winner = Some(OutcomeOf(p1_hp, p2_hp))
        /\ winner = Some("Draw - 100-round limit reached!") =>
              /\ rnd = MaxRounds
              /\ Len(hp_history) = 2 * (MaxRounds + 1)
              /\ p1_hp > 0 /\ p2_hp > 0

\* a battle between differently named sides won by p2
C7_Witness ==
    /\ pc = "resolved"
    /\ p1.name # p2.name
    /\ p1.stats.hp > 0
    /\ p1_hp = 0 /\ p2_hp > 0
    /\ winner = Some(Title(p2.name))

\* the factor of one defending type as the claim states it, in quarters
ClaimFactor(dr, t) ==
    IF t \in dr.double_damage_to THEN 2 * One
    ELSE IF t \in dr.half_damage_to THEN One \div 2
    ELSE IF t \in dr.no_damage_to THEN 0
    ELSE One

\* C8: the multiplier is exactly 1.0 when the type lookup fails; otherwise it
\* is the product of one first-match factor per defending type, hence one of
\* 0, 0.25, 0.5, 1, 2, 4, and 0 whenever a defending type's factor is 0.
C8_Effectiveness ==
    calc.status # "none" =>
        LET td == fetch_type[p1_move.type]
            ts == p2.types
            f(i) == ClaimFactor(td[1], ts[i])
        IN  /\ td = None => calc.effectiveness = One
            /\ td # None =>
                  /\ calc.effectiveness =
                        IF Len(ts) = 1 THEN f(1) ELSE (f(1) * f(2)) \div One
                  /\ (\E i \in 1..Len(ts) : f(i) = 0) =>
                        calc.effectiveness = 0
            /\ calc.effectiveness \in {0, 1, 2, 4, 8, 16}

\* a dual-type defender whose first type is listed both as double and as no
\* damage (the first match, double, wins) and whose second type is halved
C8_Witness ==
    /\ calc.status = "returned"
    /\ fetch_type[p1_move.type] # None
    /\ Len(p2.types) = 2
    /\ LET dr == fetch_type[p1_move.type][1]
       IN  /\ p2.types[1] \in dr.double_damage_to \cap dr.no_damage_to
           /\ p2.types[2] \in dr.half_damage_to \ dr.double_damage_to
    /\ calc.effectiveness = One

Faster == IF p1.stats.speed > p2.stats.speed THEN "p1" ELSE "p2"

\* C9: in every round the side with the strictly higher speed attacks first,
\* each side attacks at most once and the two attackers of a round are
\* distinct sides.
C9_TurnOrder ==
    /\ order # <<>> =>
          /\ Len(order) = 2
          /\ order[1].attacker # order[2].attacker
          /\ \A i \in 1..2 : order[i].def_key # order[i].attacker
          /\ p1.stats.speed # p2.stats.speed => order[1].attacker = Faster
          /\ Len(RoundEvents(rnd)) = turn - 1
          /\ \A i \in 1..Len(RoundEvents(rnd)) :
                RoundEvents(rnd)[i].Attacker =
                    Title(Side(order[i].attacker).name)
    /\ \A r \in 1..MaxRounds :
          /\ Len(RoundEvents(r)) <= 2
          /\ r < rnd => Len(RoundEvents(r)) >= 1
          /\ r > rnd => Len(RoundEvents(r)) = 0
          /\ (p1.stats.speed # p2.stats.speed /\ RoundEvents(r) # <<>>) =>
                RoundEvents(r)[1].Attacker = Title(Side(Faster).name)

\* equal speeds: p1 opened round 1 and p2 opened round 2
C9_Witness ==
    /\ p1.stats.speed = p2.stats.speed
    /\ p1.name # p2.name
    /\ Len(RoundEvents(1)) = 2
    /\ RoundEvents(1)[1].Attacker = Title(p1.name)
    /\ RoundEvents(2) # <<>>
    /\ RoundEvents(2)[1].Attacker = Title(p2.name)

\* C10: when both hp stats are at least 1 the two sides are never both at 0,
\* the simultaneous-KO outcome is never returned, and the side about to
\* attack has HP above 0.
C10_NoDoubleKnockout ==
    (p1.stats.hp >= 1 /\ p2.stats.hp >= 1) =>
        /\ ~(p1_hp = 0 /\ p2_hp = 0)
        /\ winner # Some("It's a draw!")
        /\ pc = "turns" => Hp(order[turn].attacker) > 0

\* both started above 0, the second attacker of a round struck the deciding
\* blow and exactly one side is at 0 in the resolved state
C10_Witness ==
    /\ p1.stats.hp >= 1 /\ p2.stats.hp >= 1
    /\ pc = "resolved"
    /\ Len(RoundEvents(rnd)) = 2
    /\ (p1_hp = 0) # (p2_hp = 0)

====
